---- MODULE Spec2Model ----
(***************************************************************************)
(* A model of the security policy of gin-contrib/secure (src/policy.go):   *)
(* the construction of a policy from a Config (loadConfig, addHeader) and  *)
(* the evaluation of a request (apply, writeSecureHeaders,                 *)
(* checkAllowHosts, isIPV4, isSSLRequest, checkSSL).                       *)
(*                                                                         *)
(* A Go string is a sequence of one-character strings, so that             *)
(* strings.EqualFold, strings.IndexByte, net.ParseIP and fmt.Sprintf are   *)
(* computed character by character.  A Go map is a function whose DOMAIN   *)
(* is the set of keys present.                                             *)
(***************************************************************************)
EXTENDS Integers, Sequences, FiniteSets, TLC

VARIABLES
    arg,      \* the Config handed to newPolicy
    stage,    \* "new" before newPolicy has run, "ready" after
    policy,   \* the policy struct: [config, fixedHeaders]
    call,     \* per invocation of apply: request, response, position, result
    probe     \* a direct call of isIPV4: [host, result]

vars == <<arg, stage, policy, call, probe>>

(***************************************************************************)
(* Strings                                                                 *)
(***************************************************************************)
Empty == << >>

Digits == <<"0", "1", "2", "3", "4", "5", "6", "7", "8", "9">>

IsDigit(c) == \E d \in 1..10 : Digits[d] = c

DigitVal(c) == (CHOOSE d \in 1..10 : Digits[d] = c) - 1

UpperCase ==
    <<"A", "B", "C", "D", "E", "F", "G", "H", "I", "J", "K", "L", "M",
      "N", "O", "P", "Q", "R", "S", "T", "U", "V", "W", "X", "Y", "Z">>

LowerCase ==
    <<"a", "b", "c", "d", "e", "f", "g", "h", "i", "j", "k", "l", "m",
      "n", "o", "p", "q", "r", "s", "t", "u", "v", "w", "x", "y", "z">>

\* The case folding strings.EqualFold applies to an ASCII character.
Fold(c) ==
    IF \E k \in 1..26 : UpperCase[k] = c
    THEN LowerCase[CHOOSE k \in 1..26 : UpperCase[k] = c]
    ELSE c

\* strings.EqualFold(s, t) on ASCII strings.
EqualFold(s, t) ==
    /\ Len(s) = Len(t)
    /\ \A k \in 1..Len(s) : Fold(s[k]) = Fold(t[k])

\* strings.IndexByte(s, c): the 0-based index of the first c in s, or -1.
IndexByte(s, c) ==
    IF \E k \in 1..Len(s) : s[k] = c
    THEN (CHOOSE k \in 1..Len(s) : s[k] = c /\ \A j \in 1..(k - 1) : s[j] # c) - 1
    ELSE -1

\* The Go slice expression s[:n].
Prefix(s, n) == SubSeq(s, 1, n)

\* The Go slice expression s[n:].
Suffix(s, n) == SubSeq(s, n + 1, Len(s))

RECURSIVE NatToStr(_)
\* The decimal digits of a natural number, as strconv writes them.
NatToStr(n) ==
    IF n < 10 THEN <<Digits[n + 1]>>
    ELSE NatToStr(n \div 10) \o <<Digits[(n % 10) + 1]>>

\* The verb %d of fmt.Sprintf.
FormatInt(n) == IF n < 0 THEN <<"-">> \o NatToStr(0 - n) ELSE NatToStr(n)

(***************************************************************************)
(* String literals of src/policy.go                                       *)
(***************************************************************************)
StrHttps == <<"h", "t", "t", "p", "s">>

StrDeny == <<"D", "E", "N", "Y">>

StrNosniff == <<"n", "o", "s", "n", "i", "f", "f">>

StrXssBlock == <<"1", ";", " ", "m", "o", "d", "e", "=", "b", "l", "o", "c", "k">>

StrNoopen == <<"n", "o", "o", "p", "e", "n">>

StrMaxAge == <<"m", "a", "x", "-", "a", "g", "e", "=">>

StrIncludeSub ==
    <<";", " ", "i", "n", "c", "l", "u", "d", "e",
      "S", "u", "b", "d", "o", "m", "a", "i", "n", "s">>

(***************************************************************************)
(* Construction: newPolicy, loadConfig, addHeader                          *)
(***************************************************************************)
\* addHeader appends one header whose value list holds the single value.
addHeader(fixedHeaders, key, value) ==
    Append(fixedHeaders, [key |-> key, value |-> <<value>>])

\* stsValue with the subdomain suffix appended whatever the flag says.
stsValueAlwaysSub(config) ==
    StrMaxAge \o FormatInt(config.STSSeconds) \o StrIncludeSub

\* The value of Strict-Transport-Security: Sprintf("max-age=%d%s", ...).
stsValue(config) ==
    LET stsSub == IF config.STSIncludeSubdomains THEN StrIncludeSub ELSE Empty
    IN  StrMaxAge \o FormatInt(config.STSSeconds) \o stsSub

\* frameOptions with the two tests in the other order: DENY wins.
frameOptionsDenyFirst(config, h) ==
    IF config.FrameDeny
    THEN addHeader(h, "X-Frame-Options", StrDeny)
    ELSE IF Len(config.CustomFrameOptionsValue) > 0
         THEN addHeader(h, "X-Frame-Options", config.CustomFrameOptionsValue)
         ELSE h

\* loadConfig, "Frame Options header": the custom value, else DENY.
frameOptions(config, h) ==
    IF Len(config.CustomFrameOptionsValue) > 0
    THEN addHeader(h, "X-Frame-Options", config.CustomFrameOptionsValue)
    ELSE IF config.FrameDeny
         THEN addHeader(h, "X-Frame-Options", StrDeny)
         ELSE h

\* loadConfig, "Strict Transport Security header".
strictTransport(config, h) ==
    IF config.STSSeconds # 0
    THEN addHeader(h, "Strict-Transport-Security", stsValue(config))
    ELSE h

\* loadConfig with the X-Download-Options block placed before the Strict
\* Transport Security block.
loadConfigDownloadFirst(config) ==
    LET h1 == frameOptions(config, << >>)
        h2 == IF config.ContentTypeNosniff
              THEN addHeader(h1, "X-Content-Type-Options", StrNosniff)
              ELSE h1
        h3 == IF config.BrowserXssFilter
              THEN addHeader(h2, "X-Xss-Protection", StrXssBlock)
              ELSE h2
        h4 == IF Len(config.ContentSecurityPolicy) > 0
              THEN addHeader(h3, "Content-Security-Policy", config.ContentSecurityPolicy)
              ELSE h3
        h5 == IF Len(config.ReferrerPolicy) > 0
              THEN addHeader(h4, "Referrer-Policy", config.ReferrerPolicy)
              ELSE h4
        h6 == IF config.IENoOpen
              THEN addHeader(h5, "X-Download-Options", StrNoopen)
              ELSE h5
        h7 == strictTransport(config, h6)
        h8 == IF Len(config.FeaturePolicy) > 0
              THEN addHeader(h7, "Feature-Policy", config.FeaturePolicy)
              ELSE h7
    IN  [config |-> config, fixedHeaders |-> h8]

\* loadConfig stores the Config and compiles fixedHeaders, one if after another.
loadConfig(config) ==
    LET h1 == frameOptions(config, << >>)
        h2 == IF config.ContentTypeNosniff
              THEN addHeader(h1, "X-Content-Type-Options", StrNosniff)
              ELSE h1
        h3 == IF config.BrowserXssFilter
              THEN addHeader(h2, "X-Xss-Protection", StrXssBlock)
              ELSE h2
        h4 == IF Len(config.ContentSecurityPolicy) > 0
              THEN addHeader(h3, "Content-Security-Policy", config.ContentSecurityPolicy)
              ELSE h3
        h5 == IF Len(config.ReferrerPolicy) > 0
              THEN addHeader(h4, "Referrer-Policy", config.ReferrerPolicy)
              ELSE h4
        h6 == strictTransport(config, h5)
        h7 == IF config.IENoOpen
              THEN addHeader(h6, "X-Download-Options", StrNoopen)
              ELSE h6
        h8 == IF Len(config.FeaturePolicy) > 0
              THEN addHeader(h7, "Feature-Policy", config.FeaturePolicy)
              ELSE h7
    IN  [config |-> config, fixedHeaders |-> h8]

\* The zero value of Config: every feature off.
ZeroConfig ==
    [ IsDevelopment             |-> FALSE,
      AllowedHosts              |-> << >>,
      BadHostHandler            |-> "nil",
      SSLRedirect               |-> FALSE,
      SSLTemporaryRedirect      |-> FALSE,
      SSLHost                   |-> Empty,
      SSLProxyHeaders           |-> [h \in {} |-> Empty],
      DontRedirectIPV4Hostnames |-> FALSE,
      STSSeconds                |-> 0,
      STSIncludeSubdomains      |-> FALSE,
      CustomFrameOptionsValue   |-> Empty,
      FrameDeny                 |-> FALSE,
      ContentTypeNosniff        |-> FALSE,
      BrowserXssFilter          |-> FALSE,
      ContentSecurityPolicy     |-> Empty,
      ReferrerPolicy            |-> Empty,
      FeaturePolicy             |-> Empty,
      IENoOpen                  |-> FALSE ]

\* The zero value &policy{} that newPolicy allocates before loadConfig runs.
ZeroPolicy == [config |-> ZeroConfig, fixedHeaders |-> << >>]

\* newPolicy(config): allocate, loadConfig, return.
newPolicy(config) == loadConfig(config)

(***************************************************************************)
(* Inputs of the construction                                              *)
(***************************************************************************)
StrSameOrigin == <<"S", "A", "M", "E", "O", "R", "I", "G", "I", "N">>

StrCsp == <<"d", "e", "f", "a", "u", "l", "t", "-", "s", "r", "c", " ", "'", "s", "e", "l", "f", "'">>

StrReferrer == <<"n", "o", "-", "r", "e", "f", "e", "r", "r", "e", "r">>

StrFeature == <<"v", "i", "b", "r", "a", "t", "e", " ", "'", "n", "o", "n", "e", "'">>

\* STSSeconds is a signed integer: off, small, the value of the tests, negative.
StsChoices == {0, 60, 315360000, 0 - 1}

\* Every combination of the header-producing fields.
CompileConfigs ==
    { [ZeroConfig EXCEPT
          !.CustomFrameOptionsValue = cf, !.FrameDeny = fd,
          !.ContentTypeNosniff = ns, !.BrowserXssFilter = xf,
          !.ContentSecurityPolicy = csp, !.ReferrerPolicy = rp,
          !.STSSeconds = sts, !.STSIncludeSubdomains = sub,
          !.IENoOpen = ie, !.FeaturePolicy = fp] :
        cf \in {Empty, StrSameOrigin}, fd \in BOOLEAN,
        ns \in BOOLEAN, xf \in BOOLEAN,
        csp \in {Empty, StrCsp}, rp \in {Empty, StrReferrer},
        sts \in StsChoices, sub \in BOOLEAN,
        ie \in BOOLEAN, fp \in {Empty, StrFeature} }

(***************************************************************************)
(* Requests and responses (net/http)                                       *)
(***************************************************************************)
EmptyMap == [h \in {} |-> << >>]

\* http.Header as a map: m[k] = v.
MapSet(m, k, v) == [x \in (DOMAIN m) \cup {k} |-> IF x = k THEN v ELSE m[x]]

\* ResponseWriter.WriteHeader: the first status written is the one sent.
WriteHeader(res, code) ==
    IF res.status = 0 THEN [res EXCEPT !.status = code] ELSE res

\* ResponseWriter.Write: the body is the chunks written, in order.
WriteBody(res, chunk) == [res EXCEPT !.body = Append(@, chunk)]

StatusForbidden == 403

StatusMovedPermanently == 301

StatusTemporaryRedirect == 307

StatusInternalServerError == 500

StrTextHtml ==
    <<"t", "e", "x", "t", "/", "h", "t", "m", "l", ";", " ",
      "c", "h", "a", "r", "s", "e", "t", "=", "u", "t", "f", "-", "8">>

StrTextPlain ==
    <<"t", "e", "x", "t", "/", "p", "l", "a", "i", "n", ";", " ",
      "c", "h", "a", "r", "s", "e", "t", "=", "u", "t", "f", "-", "8">>

StrBadHost == <<"B", "a", "d", "H", "o", "s", "t">>

StrAllowAll == <<"A", "L", "L", "O", "W", "A", "L", "L">>

\* url.URL.String() for a URL with Scheme, Host, Path and RawQuery (no Opaque,
\* User or Fragment; the host and path hold no character that is escaped).
URLString(u) ==
    LET scheme == IF Len(u.Scheme) > 0 THEN u.Scheme \o <<":">> ELSE Empty
        slashes == IF (Len(u.Scheme) > 0 \/ Len(u.Host) > 0)
                      /\ (Len(u.Host) > 0 \/ Len(u.Path) > 0)
                   THEN <<"/", "/">> ELSE Empty
        host    == IF Len(u.Scheme) > 0 \/ Len(u.Host) > 0 THEN u.Host ELSE Empty
        sep     == IF Len(u.Path) > 0 /\ u.Path[1] # "/" /\ Len(u.Host) > 0
                   THEN <<"/">> ELSE Empty
        query   == IF Len(u.RawQuery) > 0 THEN <<"?">> \o u.RawQuery ELSE Empty
    IN  scheme \o slashes \o host \o sep \o u.Path \o query

\* http.Redirect(w, r, url, code) for an absolute url: Location is set, a
\* Content-Type is added for GET and HEAD when none is there, the status is
\* written and, for GET, a short HTML body names the target.
Redirect(res, req, url, code) ==
    LET hadCT == "Content-Type" \in DOMAIN res.header
        h1 == MapSet(res.header, "Location", <<url>>)
        h2 == IF ~hadCT /\ req.Method \in {"GET", "HEAD"}
              THEN MapSet(h1, "Content-Type", <<StrTextHtml>>)
              ELSE h1
        r1 == WriteHeader([res EXCEPT !.header = h2], code)
    IN  IF ~hadCT /\ req.Method = "GET"
        THEN WriteBody(r1, [text |-> Empty, href |-> url, code |-> code])
        ELSE r1

\* The handlers a Config may carry in BadHostHandler.  "string500" is the
\* handler of TestBadHostHandler (status 500, text body); "overwrite" is a
\* handler that also sets a header of its own choice before answering.
runBadHostHandler(handler, res, req) ==
    IF handler = "string500"
    THEN WriteBody(
             WriteHeader(
                 [res EXCEPT !.header = MapSet(@, "Content-Type", <<StrTextPlain>>)],
                 StatusInternalServerError),
             [text |-> StrBadHost, href |-> Empty, code |-> 0])
    ELSE WriteHeader(
             [res EXCEPT !.header = MapSet(@, "X-Frame-Options", <<StrAllowAll>>)],
             StatusInternalServerError)

(***************************************************************************)
(* Evaluation: writeSecureHeaders, checkAllowHosts, isIPV4, isSSLRequest,  *)
(* checkSSL                                                                *)
(***************************************************************************)
RECURSIVE writeLoopAppend(_, _, _)
\* writeLoop adding to the values already there (Header.Add) instead of
\* replacing them.
writeLoopAppend(header, fixedHeaders, k) ==
    IF k > Len(fixedHeaders) THEN header
    ELSE LET key == fixedHeaders[k].key
             old == IF key \in DOMAIN header THEN header[key] ELSE << >>
         IN  writeLoopAppend(MapSet(header, key, old \o fixedHeaders[k].value),
                             fixedHeaders, k + 1)

RECURSIVE writeLoop(_, _, _)
\* The range loop of writeSecureHeaders from pair k on: header[key] = value.
writeLoop(header, fixedHeaders, k) ==
    IF k > Len(fixedHeaders) THEN header
    ELSE writeLoop(MapSet(header, fixedHeaders[k].key, fixedHeaders[k].value),
                   fixedHeaders, k + 1)

writeSecureHeaders(p, res) ==
    [res EXCEPT !.header = writeLoop(@, p.fixedHeaders, 1)]

\* The host checkAllowHosts compares: req.Host, or req.URL.Host when empty.
requestHost(req) == IF Len(req.Host) = 0 THEN req.URL.Host ELSE req.Host

\* checkAllowHosts comparing with == instead of strings.EqualFold.
checkAllowHostsExact(p, res, req) ==
    IF Len(p.config.AllowedHosts) = 0
    THEN [ok |-> TRUE, res |-> res]
    ELSE IF \E k \in 1..Len(p.config.AllowedHosts) :
                p.config.AllowedHosts[k] = requestHost(req)
         THEN [ok |-> TRUE, res |-> res]
         ELSE IF p.config.BadHostHandler # "nil"
              THEN [ok |-> FALSE,
                    res |-> runBadHostHandler(p.config.BadHostHandler, res, req)]
              ELSE [ok |-> FALSE, res |-> WriteHeader(res, StatusForbidden)]

\* checkAllowHosts: [ok, res].
checkAllowHosts(p, res, req) ==
    IF Len(p.config.AllowedHosts) = 0
    THEN [ok |-> TRUE, res |-> res]
    ELSE IF \E k \in 1..Len(p.config.AllowedHosts) :
                EqualFold(p.config.AllowedHosts[k], requestHost(req))
         THEN [ok |-> TRUE, res |-> res]
         ELSE IF p.config.BadHostHandler # "nil"
              THEN [ok |-> FALSE,
                    res |-> runBadHostHandler(p.config.BadHostHandler, res, req)]
              ELSE [ok |-> FALSE, res |-> WriteHeader(res, StatusForbidden)]

RECURSIVE Split(_, _)
\* The fields of s between the separators c.
Split(s, c) ==
    LET i == IndexByte(s, c)
    IN  IF i = 0 - 1 THEN <<s>>
        ELSE <<Prefix(s, i)>> \o Split(Suffix(s, i + 1), c)

RECURSIVE ParseNat(_)
\* The value of a string of digits.
ParseNat(s) ==
    IF Len(s) = 0 THEN 0
    ELSE ParseNat(Prefix(s, Len(s) - 1)) * 10 + DigitVal(s[Len(s)])

\* One field of a dotted quad as net.ParseIP accepts it: one to three digits,
\* no leading zero, at most 255.
IsQuadField(f) ==
    /\ Len(f) \in 1..3
    /\ \A k \in 1..Len(f) : IsDigit(f[k])
    /\ (Len(f) > 1 => f[1] # "0")
    /\ ParseNat(f) <= 255

\* net.ParseIP(s) != nil for a string without ':': four fields between dots.
parsesAsIPv4(s) ==
    LET fields == Split(s, ".")
    IN  /\ Len(fields) = 4
        /\ \A k \in 1..4 : IsQuadField(fields[k])

\* net.ParseIP(s) != nil.  A string holding ':' is handed to the IPv6 parser;
\* of the IPv6 literals only "::" followed by up to four digits is modelled
\* (isIPV4 never hands over a string with ':').
ParseIPNotNil(s) ==
    IF IndexByte(s, ":") = 0 - 1 THEN parsesAsIPv4(s)
    ELSE /\ IndexByte(s, ".") = 0 - 1
         /\ Len(s) >= 2
         /\ s[1] = ":" /\ s[2] = ":"
         /\ \A k \in 3..Len(s) : IsDigit(s[k])
         /\ Len(s) <= 6

\* isIPV4: cut at the first ':' and parse what is before it.
isIPV4(host) ==
    LET index == IndexByte(host, ":")
        h == IF index # 0 - 1 THEN Prefix(host, index) ELSE host
    IN  ParseIPNotNil(h)

\* The orders in which a range over a map with key set S may visit its keys.
Orders(S) ==
    { o \in [1..Cardinality(S) -> S] :
        \A a, b \in 1..Cardinality(S) : a # b => o[a] # o[b] }

RECURSIVE proxyLoop(_, _, _, _)
\* The range loop of isSSLRequest over SSLProxyHeaders, visiting the keys in
\* the given order from position k on.  hv[0] of an empty value list is an
\* index out of range: the goroutine panics.
proxyLoop(proxyHeaders, header, order, k) ==
    IF k > Len(order) THEN "none"
    ELSE LET h == order[k]
         IN  IF h \notin DOMAIN header
             THEN proxyLoop(proxyHeaders, header, order, k + 1)
             ELSE IF Len(header[h]) = 0 THEN "panic"
             ELSE IF EqualFold(header[h][1], proxyHeaders[h]) THEN "true"
             ELSE proxyLoop(proxyHeaders, header, order, k + 1)

\* isSSLRequest: "true", "false" or "panic".
isSSLRequest(p, req, order) ==
    IF EqualFold(req.URL.Scheme, StrHttps) \/ req.TLS
    THEN "true"
    ELSE LET found == proxyLoop(p.config.SSLProxyHeaders, req.Header, order, 1)
         IN  IF found # "none" THEN found
             ELSE IF p.config.DontRedirectIPV4Hostnames /\ isIPV4(req.Host)
                  THEN "true"
                  ELSE "false"

\* checkSSL without the assignment url.Host = req.Host: the redirect keeps
\* the host of req.URL.
checkSSLKeepsURLHost(p, res, req, order) ==
    IF ~p.config.SSLRedirect
    THEN [ok |-> TRUE, res |-> res, req |-> req, ssl |-> "off"]
    ELSE LET ssl == isSSLRequest(p, req, order)
             host == IF Len(p.config.SSLHost) > 0 THEN p.config.SSLHost ELSE req.URL.Host
             url == [req.URL EXCEPT !.Scheme = StrHttps, !.Host = host]
             status == IF p.config.SSLTemporaryRedirect
                       THEN StatusTemporaryRedirect
                       ELSE StatusMovedPermanently
             req1 == [req EXCEPT !.URL = url]
         IN  IF ssl = "true"
             THEN [ok |-> TRUE, res |-> res, req |-> req, ssl |-> ssl]
             ELSE IF ssl = "panic"
             THEN [ok |-> FALSE, res |-> res, req |-> req, ssl |-> ssl]
             ELSE [ok |-> FALSE,
                   res |-> Redirect(res, req1, URLString(url), status),
                   req |-> req1, ssl |-> ssl]

\* checkSSL: [ok, res, req, ssl].  url := req.URL copies the pointer, so the
\* assignments to url.Scheme and url.Host are assignments to the request's URL.
checkSSL(p, res, req, order) ==
    IF ~p.config.SSLRedirect
    THEN [ok |-> TRUE, res |-> res, req |-> req, ssl |-> "off"]
    ELSE LET ssl == isSSLRequest(p, req, order)
             host == IF Len(p.config.SSLHost) > 0 THEN p.config.SSLHost ELSE req.Host
             url == [req.URL EXCEPT !.Scheme = StrHttps, !.Host = host]
             status == IF p.config.SSLTemporaryRedirect
                       THEN StatusTemporaryRedirect
                       ELSE StatusMovedPermanently
             req1 == [req EXCEPT !.URL = url]
         IN  IF ssl = "true"
             THEN [ok |-> TRUE, res |-> res, req |-> req, ssl |-> ssl]
             ELSE IF ssl = "panic"
             THEN [ok |-> FALSE, res |-> res, req |-> req, ssl |-> ssl]
             ELSE [ok |-> FALSE,
                   res |-> Redirect(res, req1, URLString(url), status),
                   req |-> req1, ssl |-> ssl]

(***************************************************************************)
(* Inputs of the evaluation                                                *)
(***************************************************************************)
HostA == <<"a", ".", "i", "o">>

HostAUpper == <<"A", ".", "I", "O">>

HostB == <<"b", ".", "i", "o">>

HostC == <<"c", ".", "i", "o">>

HostS == <<"s", ".", "i", "o">>

HostIP == <<"1", ".", "2", ".", "3", ".", "4">>

HostIPPort == <<"1", ".", "2", ".", "3", ".", "4", ":", "8", "0">>

StrHttp == <<"h", "t", "t", "p">>

StrHttpsUpper == <<"H", "T", "T", "P", "S">>

StrOn == <<"o", "n">>

StrOnUpper == <<"O", "N">>

StrFoo == <<"/", "f", "o", "o">>

StrQuery == <<"q", "=", "1">>

StrOld == <<"o", "l", "d">>

\* SSLProxyHeaders: none, one entry, two entries.
ProxyChoices ==
    { EmptyMap,
      [h \in {"X-Forwarded-Proto"} |-> StrHttps],
      [h \in {"X-Forwarded-Proto", "X-Forwarded-Ssl"} |->
          IF h = "X-Forwarded-Proto" THEN StrHttps ELSE StrOn] }

\* The header-producing fields: all off, or all on.
HeaderChoices ==
    { ZeroConfig,
      [ZeroConfig EXCEPT
          !.CustomFrameOptionsValue = StrSameOrigin, !.FrameDeny = TRUE,
          !.ContentTypeNosniff = TRUE, !.BrowserXssFilter = TRUE,
          !.ContentSecurityPolicy = StrCsp, !.ReferrerPolicy = StrReferrer,
          !.STSSeconds = 60, !.STSIncludeSubdomains = TRUE,
          !.IENoOpen = TRUE, !.FeaturePolicy = StrFeature] }

\* The configurations of the evaluation.
ApplyConfigs ==
    { [hc EXCEPT
          !.IsDevelopment = dev, !.AllowedHosts = ah, !.BadHostHandler = bh,
          !.SSLRedirect = sr, !.SSLTemporaryRedirect = tr, !.SSLHost = sh,
          !.SSLProxyHeaders = ph, !.DontRedirectIPV4Hostnames = dr] :
        hc \in HeaderChoices, dev \in BOOLEAN,
        ah \in {<< >>, <<HostB, HostAUpper>>},
        bh \in {"nil", "string500", "overwrite"},
        sr \in BOOLEAN, tr \in BOOLEAN, sh \in {Empty, HostS},
        ph \in ProxyChoices, dr \in BOOLEAN }

\* Request headers: none; a matching value in another case; a first value
\* that differs before one that matches; an empty value list beside a match.
RequestHeaders ==
    { EmptyMap,
      [h \in {"X-Forwarded-Proto"} |-> <<StrHttpsUpper>>],
      [h \in {"X-Forwarded-Proto"} |-> <<StrHttp, StrHttps>>],
      [h \in {"X-Forwarded-Proto", "X-Forwarded-Ssl"} |->
          IF h = "X-Forwarded-Proto" THEN << >> ELSE <<StrOnUpper>>] }

\* (Host, URL.Host, RawQuery) of the requests.
RequestTargets ==
    { <<HostA, Empty, Empty>>, <<HostC, HostA, StrQuery>>,
      <<HostIPPort, Empty, Empty>>, <<Empty, HostA, StrQuery>>,
      <<Empty, Empty, Empty>> }

\* (URL.Scheme, TLS) of the requests.
RequestTransports ==
    { <<StrHttp, FALSE>>, <<StrHttpsUpper, FALSE>>, <<StrHttp, TRUE>> }

Requests ==
    { [ Method |-> "GET", Host |-> t[1],
        URL |-> [Scheme |-> tr[1], Host |-> t[2], Path |-> StrFoo, RawQuery |-> t[3]],
        TLS |-> tr[2], Header |-> hd ] :
        t \in RequestTargets, tr \in RequestTransports, hd \in RequestHeaders }

\* A response nothing has written to, and one an earlier handler has written
\* headers to.
FreshResponse == [header |-> EmptyMap, status |-> 0, body |-> << >>]

Responses ==
    { FreshResponse,
      [FreshResponse EXCEPT !.header =
          [h \in {"X-Frame-Options", "X-Request-Id"} |->
              IF h = "X-Frame-Options" THEN <<StrOld, StrDeny>> ELSE <<StrOld>>]] }

(***************************************************************************)
(* The state machine                                                       *)
(***************************************************************************)
\* The number of concurrent invocations of apply on one policy.
NumCalls == 2

\* The number of times one request is handed to apply.
MaxApply == 2

Calls == 1..NumCalls

ZeroRequest ==
    [ Method |-> "GET", Host |-> Empty,
      URL |-> [Scheme |-> Empty, Host |-> Empty, Path |-> Empty, RawQuery |-> Empty],
      TLS |-> FALSE, Header |-> EmptyMap ]

NoOutcome == [pc |-> "idle", ret |-> FALSE, res |-> FreshResponse]

IdleCall ==
    [ pc |-> "idle", req |-> ZeroRequest, req0 |-> ZeroRequest,
      res |-> FreshResponse, res0 |-> FreshResponse, ret |-> FALSE,
      hosts |-> "none", ssl |-> "none", round |-> 0, first |-> NoOutcome ]

IdleProbe == [host |-> Empty, result |-> "none"]

\* The state after newPolicy(config), before any request.
InitWith(configs) ==
    /\ arg \in configs
    /\ stage = "ready"
    /\ policy = newPolicy(arg)
    /\ call = [i \in Calls |-> IdleCall]
    /\ probe = IdleProbe

Init == InitWith(ApplyConfigs)

\* The server hands request r and response writer w to invocation i.
Receive(i, r, w) ==
    /\ stage = "ready"
    /\ call[i].pc = "idle"
    /\ call' = [call EXCEPT ![i] =
          [IdleCall EXCEPT !.pc = "apply", !.req = r, !.req0 = r,
                           !.res = w, !.res0 = w, !.round = 1]]
    /\ UNCHANGED <<arg, stage, policy, probe>>

\* apply testing IsDevelopment only after writeSecureHeaders has run.
DevBypassAfterHeaders(i) ==
    /\ call[i].pc = "apply"
    /\ policy.config.IsDevelopment
    /\ call' = [call EXCEPT ![i].pc = "done", ![i].ret = TRUE,
                            ![i].res = writeSecureHeaders(policy, @)]
    /\ UNCHANGED <<arg, stage, policy, probe>>

\* apply, IsDevelopment set: return true at once.
DevBypass(i) ==
    /\ call[i].pc = "apply"
    /\ policy.config.IsDevelopment
    /\ call' = [call EXCEPT ![i].pc = "done", ![i].ret = TRUE]
    /\ UNCHANGED <<arg, stage, policy, probe>>

\* apply, first call: writeSecureHeaders.
WriteSecureHeaders(i) ==
    /\ call[i].pc = "apply"
    /\ ~policy.config.IsDevelopment
    /\ call' = [call EXCEPT ![i].pc = "hosts",
                            ![i].res = writeSecureHeaders(policy, @)]
    /\ UNCHANGED <<arg, stage, policy, probe>>

\* apply, second call: checkAllowHosts; return false when it fails.
CheckAllowHosts(i) ==
    /\ call[i].pc = "hosts"
    /\ LET out == checkAllowHosts(policy, call[i].res, call[i].req)
       IN  call' = [call EXCEPT
               ![i].pc = IF out.ok THEN "ssl" ELSE "done",
               ![i].hosts = IF out.ok THEN "pass" ELSE "fail",
               ![i].ret = FALSE,
               ![i].res = out.res]
    /\ UNCHANGED <<arg, stage, policy, probe>>

\* apply, third call: checkSSL; return its result, or panic with it.
CheckSSL(i) ==
    /\ call[i].pc = "ssl"
    /\ \E order \in Orders(DOMAIN policy.config.SSLProxyHeaders) :
          LET out == checkSSL(policy, call[i].res, call[i].req, order)
          IN  call' = [call EXCEPT
                  ![i].pc = IF out.ssl = "panic" THEN "panic" ELSE "done",
                  ![i].ssl = out.ssl,
                  ![i].ret = out.ok,
                  ![i].res = out.res,
                  ![i].req = out.req]
    /\ UNCHANGED <<arg, stage, policy, probe>>

\* One invocation at a time: the server hands a request to apply, and apply
\* runs to its return (or to the panic of isSSLRequest).
Next ==
    \/ \E r \in Requests, w \in Responses : Receive(1, r, w)
    \/ DevBypass(1)
    \/ WriteSecureHeaders(1)
    \/ CheckAllowHosts(1)
    \/ CheckSSL(1)

Spec == Init /\ [][Next]_vars

(***************************************************************************)
(* One request handed to apply more than once                              *)
(***************************************************************************)
TwiceConfigs ==
    { c \in ApplyConfigs :
        /\ c.FrameDeny
        /\ c.BadHostHandler # "overwrite"
        /\ DOMAIN c.SSLProxyHeaders = {"X-Forwarded-Proto"} }

InitTwice == InitWith(TwiceConfigs)

\* The caller hands the same request to apply again, with a response writer
\* in the state the first one had.  The outcome of the first call is kept.
Reapply(i) ==
    /\ call[i].pc = "done"
    /\ call[i].round < MaxApply
    /\ call' = [call EXCEPT ![i] =
          [@ EXCEPT !.pc = "apply",
                    !.first = IF call[i].round = 1
                              THEN [pc |-> call[i].pc, ret |-> call[i].ret,
                                    res |-> call[i].res]
                              ELSE @,
                    !.req0 = call[i].req,
                    !.res = call[i].res0,
                    !.ret = FALSE, !.hosts = "none", !.ssl = "none",
                    !.round = @ + 1]]
    /\ UNCHANGED <<arg, stage, policy, probe>>

NextTwice ==
    \/ \E r \in Requests, w \in Responses : Receive(1, r, w)
    \/ DevBypass(1)
    \/ WriteSecureHeaders(1)
    \/ CheckAllowHosts(1)
    \/ CheckSSL(1)
    \/ Reapply(1)

SpecTwice == InitTwice /\ [][NextTwice]_vars

(***************************************************************************)
(* Concurrent invocations of apply on one policy                           *)
(***************************************************************************)
ConcConfigs ==
    { c \in TwiceConfigs :
        /\ c.BadHostHandler = "string500"
        /\ c.SSLHost = Empty
        /\ ~c.SSLTemporaryRedirect
        /\ c.DontRedirectIPV4Hostnames }

ConcRequests ==
    { r \in Requests :
        /\ r.Host \in {HostA, HostC}
        /\ ~r.TLS
        /\ "X-Forwarded-Ssl" \notin DOMAIN r.Header }

\* Each invocation has its own request and its own response writer; the
\* steps of different invocations interleave in any order.
NextConc ==
    \E i \in Calls :
        \/ \E r \in ConcRequests : Receive(i, r, FreshResponse)
        \/ DevBypass(i)
        \/ WriteSecureHeaders(i)
        \/ CheckAllowHosts(i)
        \/ CheckSSL(i)

InitConc == InitWith(ConcConfigs)

SpecConc == InitConc /\ [][NextConc]_vars

(***************************************************************************)
(* Construction on its own: every combination of the header fields         *)
(***************************************************************************)
InitCompile ==
    /\ arg \in CompileConfigs
    /\ stage = "new"
    /\ policy = ZeroPolicy
    /\ call = [i \in Calls |-> IdleCall]
    /\ probe = IdleProbe

\* newPolicy(arg).
NewPolicy ==
    /\ stage = "new"
    /\ policy' = newPolicy(arg)
    /\ stage' = "ready"
    /\ UNCHANGED <<arg, call, probe>>

NextCompile == NewPolicy

SpecCompile == InitCompile /\ [][NextCompile]_vars

(***************************************************************************)
(* isIPV4 on its own                                                       *)
(***************************************************************************)
\* The longest host built from the characters of ProbeAlphabet.
MaxProbeLen == 9

ProbeAlphabet == {"1", ".", ":"}

\* The hosts of TestIsIpv4Host, and hosts with larger fields, a leading
\* zero, an IPv6 literal and more than one colon.
ProbeExtras ==
    { <<"1", "2", "7", ".", "0", ".", "0", ".", "1">>,
      <<"1", "2", "7", ".", "0", ".", "0", ".", "1", ":", "8", "0", "8", "0">>,
      <<"l", "o", "c", "a", "l", "h", "o", "s", "t">>,
      <<"l", "o", "c", "a", "l", "h", "o", "s", "t", ":", "8", "0", "8", "0">>,
      <<"e", "x", "a", "m", "p", "l", "e", ".", "c", "o", "m">>,
      <<"e", "x", "a", "m", "p", "l", "e", ".", "c", "o", "m", ":", "8", "0", "8", "0">>,
      <<"2", "5", "5", ".", "2", "5", "5", ".", "2", "5", "5", ".", "2", "5", "5">>,
      <<"2", "5", "6", ".", "1", ".", "1", ".", "1">>,
      <<"0", "1", ".", "1", ".", "1", ".", "1">>,
      <<":", ":", "1">>,
      <<"[", ":", ":", "1", "]", ":", "8", "0">>,
      HostIP, HostIPPort, HostA }

ProbeHosts ==
    ProbeExtras \cup UNION { [1..n -> ProbeAlphabet] : n \in 0..MaxProbeLen }

InitProbe ==
    /\ arg = ZeroConfig
    /\ stage = "ready"
    /\ policy = newPolicy(arg)
    /\ call = [i \in Calls |-> IdleCall]
    /\ probe \in { [host |-> h, result |-> "none"] : h \in ProbeHosts }

\* A call isIPV4(probe.host).
ProbeIPV4 ==
    /\ probe.result = "none"
    /\ probe' = [probe EXCEPT !.result = IF isIPV4(probe.host) THEN "true" ELSE "false"]
    /\ UNCHANGED <<arg, stage, policy, call>>

NextProbe == ProbeIPV4

SpecProbe == InitProbe /\ [][NextProbe]_vars

(***************************************************************************)
(* Properties                                                              *)
(***************************************************************************)
\* The positions of fixedHeaders that carry the header name key.
HeadersNamed(fixedHeaders, key) ==
    { k \in 1..Len(fixedHeaders) : fixedHeaders[k].key = key }

\* The names of the compiled headers.
CompiledNames == { policy.fixedHeaders[k].key : k \in 1..Len(policy.fixedHeaders) }

\* The value list compiled for a name (the last pair of that name).
CompiledValue(name) ==
    LET at == HeadersNamed(policy.fixedHeaders, name)
    IN  policy.fixedHeaders[CHOOSE k \in at : \A j \in at : j <= k].value

\* The header set a response that held header0 must hold once the compiled
\* headers are written into it.
HeaderAfterWrite(header0) ==
    [ name \in (DOMAIN header0) \cup CompiledNames |->
        IF name \in CompiledNames THEN CompiledValue(name) ELSE header0[name] ]

\* The request's host equals some entry of AllowedHosts, ignoring case.
HostAllowed(req) ==
    LET host == IF req.Host = Empty THEN req.URL.Host ELSE req.Host
    IN  \E k \in 1..Len(policy.config.AllowedHosts) :
            EqualFold(policy.config.AllowedHosts[k], host)

\* C1: with IsDevelopment set, apply returns true (Continue) and the response
\* is what it was before the call: no header set, no status written, no host
\* check, no BadHostHandler and no SSL check run, whatever the other fields.
C1_DevPassThrough ==
    \A i \in Calls :
        policy.config.IsDevelopment =>
            /\ call[i].pc \in {"idle", "apply", "done"}
            /\ call[i].pc = "done" =>
                  /\ call[i].ret = TRUE
                  /\ call[i].res = call[i].res0
                  /\ call[i].hosts = "none"
                  /\ call[i].ssl = "none"

\* A development-mode call has returned although its host is not allowed, a
\* BadHostHandler and SSLRedirect are set, headers are compiled and the
\* request came over plain http.
C1_Witness ==
    \E i \in Calls :
        /\ call[i].pc = "done"
        /\ policy.config.IsDevelopment
        /\ Len(policy.config.AllowedHosts) > 0
        /\ ~HostAllowed(call[i].req0)
        /\ policy.config.BadHostHandler # "nil"
        /\ policy.config.SSLRedirect
        /\ Len(policy.fixedHeaders) > 0
        /\ call[i].req0.URL.Scheme = StrHttp /\ ~call[i].req0.TLS

\* C2: outside development mode the host check passes when AllowedHosts is
\* empty or the request's host (Host, or the URL's host when Host is empty)
\* equals an entry ignoring case; otherwise apply returns false (Halted)
\* without reaching the SSL check, and the response is the written headers
\* plus status 403, or what BadHostHandler made of the written headers.
C2_HostCheck ==
    \A i \in Calls :
        LET c == call[i]
            allowed == Len(policy.config.AllowedHosts) = 0 \/ HostAllowed(c.req0)
            written == [c.res0 EXCEPT !.header = HeaderAfterWrite(c.res0.header)]
        IN  (~policy.config.IsDevelopment /\ c.pc \in {"ssl", "done", "panic"}) =>
                /\ allowed => c.hosts = "pass"
                /\ ~allowed =>
                      /\ c.pc = "done"
                      /\ c.hosts = "fail"
                      /\ c.ssl = "none"
                      /\ c.ret = FALSE
                      /\ "Location" \notin DOMAIN c.res.header
                      /\ IF policy.config.BadHostHandler = "nil"
                         THEN c.res = [written EXCEPT !.status = StatusForbidden]
                         ELSE c.res = runBadHostHandler(policy.config.BadHostHandler,
                                                        written, c.req0)

\* A plain-http request with a host that is not allowed was halted by the
\* BadHostHandler although SSLRedirect is set.
C2_Witness ==
    \E i \in Calls :
        /\ call[i].pc = "done"
        /\ call[i].hosts = "fail"
        /\ policy.config.SSLRedirect
        /\ policy.config.BadHostHandler = "string500"
        /\ call[i].res.status = StatusInternalServerError
        /\ call[i].req0.URL.Scheme = StrHttp /\ ~call[i].req0.TLS

\* The Location of the redirect for a request: https, SSLHost or else the
\* request's Host, then the request's path and query.
RedirectLocation(req) ==
    LET host == IF policy.config.SSLHost # Empty THEN policy.config.SSLHost ELSE req.Host
        query == IF req.URL.RawQuery # Empty THEN <<"?">> \o req.URL.RawQuery ELSE Empty
    IN  StrHttps \o <<":", "/", "/">> \o host \o req.URL.Path \o query

ProxyProof(req) ==
    \E h \in DOMAIN policy.config.SSLProxyHeaders :
        /\ h \in DOMAIN req.Header
        /\ Len(req.Header[h]) > 0
        /\ EqualFold(req.Header[h][1], policy.config.SSLProxyHeaders[h])

\* C4: with SSLRedirect set, a request over plain http without TLS that got
\* past the host check is treated as SSL through the proxy headers (apply
\* returns true) if and only if some configured header is on it with a
\* matching first value, in whatever order the entries are examined; without
\* such a header, and without the IPv4 exemption, it is redirected.
C4_ProxyProof ==
    \A i \in Calls :
        LET c == call[i]
            plain == ~EqualFold(c.req0.URL.Scheme, StrHttps) /\ ~c.req0.TLS
            exempt == policy.config.DontRedirectIPV4Hostnames /\ isIPV4(c.req0.Host)
        IN  ( /\ ~policy.config.IsDevelopment
              /\ policy.config.SSLRedirect
              /\ c.hosts = "pass"
              /\ c.pc \in {"done", "panic"}
              /\ plain ) =>
                /\ ProxyProof(c.req0) =>
                      (c.pc = "done" /\ c.ssl = "true" /\ c.ret = TRUE)
                /\ (~ProxyProof(c.req0) /\ ~exempt) =>
                      (c.pc = "done" /\ c.ssl = "false" /\ c.ret = FALSE)

\* No configured proxy header is on the request with an empty value list.
NoEmptyProxyValue(req) ==
    \A h \in DOMAIN policy.config.SSLProxyHeaders :
        h \in DOMAIN req.Header => Len(req.Header[h]) > 0

\* What holds of the proxy-header check for the requests on which hv[0]
\* exists: the statement of C4, for those requests only.
ProxyProofWhenValuesExist ==
    \A i \in Calls :
        LET c == call[i]
            plain == ~EqualFold(c.req0.URL.Scheme, StrHttps) /\ ~c.req0.TLS
            exempt == policy.config.DontRedirectIPV4Hostnames /\ isIPV4(c.req0.Host)
        IN  ( /\ ~policy.config.IsDevelopment
              /\ policy.config.SSLRedirect
              /\ c.hosts = "pass"
              /\ c.pc \in {"done", "panic"}
              /\ plain
              /\ NoEmptyProxyValue(c.req0) ) =>
                /\ ProxyProof(c.req0) =>
                      (c.pc = "done" /\ c.ssl = "true" /\ c.ret = TRUE)
                /\ (~ProxyProof(c.req0) /\ ~exempt) =>
                      (c.pc = "done" /\ c.ssl = "false" /\ c.ret = FALSE)

\* The 0-based index of the last c in s, or -1.
LastIndexByte(s, c) ==
    IF \E k \in 1..Len(s) : s[k] = c
    THEN (CHOOSE k \in 1..Len(s) : s[k] = c /\ \A j \in (k + 1)..Len(s) : s[j] # c) - 1
    ELSE 0 - 1

\* A dotted-quad IPv4 literal, with or without one trailing ":port" (whatever
\* follows the last colon is taken for the port).
IsIPv4WithOptionalPort(s) ==
    LET last == LastIndexByte(s, ":")
        stripped == IF last # 0 - 1 THEN Prefix(s, last) ELSE s
    IN  /\ IndexByte(stripped, ":") = 0 - 1
        /\ parsesAsIPv4(stripped)

\* C5: isIPV4 answers true if and only if the host, after stripping a single
\* optional trailing :port, is a dotted-quad IPv4 literal, and false for every
\* other string.
C5_IsIPV4 ==
    probe.result # "none" =>
        ((probe.result = "true") <=> IsIPv4WithOptionalPort(probe.host))

\* The part of a Strict-Transport-Security value after "max-age=" that is a
\* sign or a digit.
NumberLen(s) ==
    LET ok(m) == \A j \in 1..m : IsDigit(s[j]) \/ (j = 1 /\ s[j] = "-")
    IN  CHOOSE m \in 0..Len(s) : ok(m) /\ \A n \in (m + 1)..Len(s) : ~ok(n)

\* The integer a canonical decimal numeral denotes; no numeral otherwise.
ReadInt(s) ==
    LET neg == Len(s) > 0 /\ s[1] = "-"
        digits == IF neg THEN Suffix(s, 1) ELSE s
    IN  IF Len(digits) = 0 \/ (Len(digits) > 1 /\ digits[1] = "0")
        THEN "no numeral"
        ELSE IF neg THEN 0 - ParseNat(digits) ELSE ParseNat(digits)

\* C6: the compiled list holds Strict-Transport-Security if and only if
\* STSSeconds is not 0, once, with the single value "max-age=" followed by the
\* decimal numeral of STSSeconds and then "; includeSubdomains" if and only if
\* STSIncludeSubdomains is set.
C6_StsHeader ==
    stage = "ready" =>
        LET c == policy.config
            at == HeadersNamed(policy.fixedHeaders, "Strict-Transport-Security")
        IN  /\ (c.STSSeconds # 0) <=> (at # {})
            /\ Cardinality(at) <= 1
            /\ \A k \in at :
                  LET value == policy.fixedHeaders[k].value
                      v == value[1]
                      rest == Suffix(v, Len(StrMaxAge))
                      n == NumberLen(rest)
                  IN  /\ Len(value) = 1
                      /\ Len(v) >= Len(StrMaxAge)
                      /\ Prefix(v, Len(StrMaxAge)) = StrMaxAge
                      /\ ReadInt(Prefix(rest, n)) = c.STSSeconds
                      /\ Suffix(rest, n) =
                            IF c.STSIncludeSubdomains THEN StrIncludeSub ELSE Empty

\* A policy was built with STSSeconds = -1 and no subdomains, and one built
\* from STSIncludeSubdomains alone holds no such header.
C6_Witness ==
    /\ stage = "ready"
    /\ policy.config.STSSeconds = 0 - 1
    /\ ~policy.config.STSIncludeSubdomains
    /\ HeadersNamed(policy.fixedHeaders, "Strict-Transport-Security") # {}

\* C7: X-Frame-Options is compiled at most once; it is the custom value when
\* that is non-empty (with FrameDeny set too, and then it is not DENY unless
\* the custom value itself is), DENY when the custom value is empty and
\* FrameDeny is set, and absent when neither is set.
C7_FrameOptions ==
    stage = "ready" =>
        LET c == policy.config
            at == HeadersNamed(policy.fixedHeaders, "X-Frame-Options")
        IN  /\ Cardinality(at) <= 1
            /\ IF c.CustomFrameOptionsValue # Empty
               THEN /\ at # {}
                    /\ \A k \in at :
                          /\ policy.fixedHeaders[k].value = <<c.CustomFrameOptionsValue>>
                          /\ (c.FrameDeny /\ c.CustomFrameOptionsValue # StrDeny)
                                => policy.fixedHeaders[k].value # <<StrDeny>>
               ELSE IF c.FrameDeny
                    THEN /\ at # {}
                         /\ \A k \in at : policy.fixedHeaders[k].value = <<StrDeny>>
                    ELSE at = {}

\* A policy was built from a custom value and FrameDeny together.
C7_Witness ==
    /\ stage = "ready"
    /\ policy.config.CustomFrameOptionsValue = StrSameOrigin
    /\ policy.config.FrameDeny
    /\ HeadersNamed(policy.fixedHeaders, "X-Frame-Options") # {}

\* C8: handing the same request to apply a second time, with a response
\* writer in the state of the first, gives the result and the response
\* (headers, status, Location) of the first time.
C8_SameOutcomeTwice ==
    \A i \in Calls :
        (call[i].pc = "done" /\ call[i].round > 1) =>
            /\ call[i].ret = call[i].first.ret
            /\ call[i].res = call[i].first.res

\* C9: no step of an invocation changes the policy (its configuration and its
\* compiled header list), and each invocation writes only to its own
\* response: a step changes at most one invocation, and never a request.
C9_WritesOnlyOwnResponse ==
    [][ /\ policy' = policy
        /\ arg' = arg
        /\ Cardinality({ i \in Calls : call'[i] # call[i] }) <= 1
        /\ \A i \in Calls :
              call[i].pc # "idle" => call'[i].req = call[i].req ]_vars

\* What holds of concurrent invocations: the policy never changes and a step
\* of one invocation leaves every other invocation as it was.
SharedStateFixed ==
    [][ /\ policy' = policy
        /\ arg' = arg
        /\ Cardinality({ i \in Calls : call'[i] # call[i] }) <= 1 ]_vars

\* C10 as stated: whenever apply has returned outside development mode, every
\* compiled header is in the response with exactly its compiled value, on the
\* 403, BadHostHandler and redirect paths too.
C10_HeadersAtReturn ==
    \A i \in Calls :
        (~policy.config.IsDevelopment /\ call[i].pc = "done") =>
            \A name \in CompiledNames :
                /\ name \in DOMAIN call[i].res.header
                /\ call[i].res.header[name] = CompiledValue(name)

\* C10 as amended: outside development mode the compiled headers are written
\* before either check has decided anything, each replacing the values that
\* were under its name and leaving every other name as it was; they are still
\* there when apply returns true, answers 403 or redirects; a BadHostHandler
\* is called on a response that holds them, and what it leaves is returned.
C10_HeadersWritten ==
    \A i \in Calls :
        LET c == call[i]
            written == [c.res0 EXCEPT !.header = HeaderAfterWrite(c.res0.header)]
            handled == c.hosts = "fail" /\ policy.config.BadHostHandler # "nil"
        IN  ~policy.config.IsDevelopment =>
                /\ c.pc = "hosts" =>
                      /\ c.res = written
                      /\ c.hosts = "none"
                      /\ c.ssl = "none"
                /\ (c.pc \in {"ssl", "done", "panic"} /\ ~handled) =>
                      \A name \in CompiledNames :
                          /\ name \in DOMAIN c.res.header
                          /\ c.res.header[name] = CompiledValue(name)
                /\ (c.pc = "done" /\ handled) =>
                      c.res = runBadHostHandler(policy.config.BadHostHandler,
                                                written, c.req0)

\* A request was answered 403 on a response that held two older values of
\* X-Frame-Options: the compiled value has replaced them.
C10_Witness ==
    \E i \in Calls :
        /\ call[i].pc = "done"
        /\ call[i].hosts = "fail"
        /\ call[i].res.status = StatusForbidden
        /\ "X-Frame-Options" \in DOMAIN call[i].res0.header
        /\ Len(call[i].res0.header["X-Frame-Options"]) = 2
        /\ call[i].res.header["X-Frame-Options"] = <<StrSameOrigin>>

\* C11: apply modifies only the response: when it has returned, the request
\* (scheme, URL host, Host, path, query, headers) is what it was before the
\* call, on the redirect path too.
C11_RequestUnchanged ==
    \A i \in Calls :
        call[i].pc = "done" => call[i].req = call[i].req0

\* What holds of the request: it is as it was wherever apply has not
\* redirected, and after a redirect only the scheme and the host of its URL
\* differ.
RequestUnchangedUnlessRedirected ==
    \A i \in Calls :
        LET c == call[i]
        IN  /\ (c.pc \in {"apply", "hosts", "ssl", "panic"}) => c.req = c.req0
            /\ (c.pc = "done" /\ c.ssl # "false") => c.req = c.req0
            /\ (c.pc = "done" /\ c.ssl = "false") =>
                  c.req = [c.req0 EXCEPT
                              !.URL.Scheme = StrHttps,
                              !.URL.Host = IF policy.config.SSLHost # Empty
                                           THEN policy.config.SSLHost
                                           ELSE c.req0.Host]

\* C12: apply returns for every configuration and request and never faults;
\* a configured proxy header that is absent, has an empty value list or a
\* value that does not match furnishes no proof, and the evaluation goes on
\* to the next entry and to the IPv4 check.
C12_NeverFaults ==
    \A i \in Calls :
        LET c == call[i]
            plain == ~EqualFold(c.req0.URL.Scheme, StrHttps) /\ ~c.req0.TLS
            exempt == policy.config.DontRedirectIPV4Hostnames /\ isIPV4(c.req0.Host)
        IN  /\ c.pc # "panic"
            /\ ( /\ c.pc = "done"
                 /\ c.hosts = "pass"
                 /\ policy.config.SSLRedirect
                 /\ plain
                 /\ ~ProxyProof(c.req0) ) =>
                    c.ssl = IF exempt THEN "true" ELSE "false"

\* What holds of the proxy-header check: it faults only on a request that
\* carries a configured header with an empty value list, and then only when
\* no match was found before that header is visited.
FaultsOnlyOnEmptyValueList ==
    \A i \in Calls :
        call[i].pc = "panic" =>
            /\ ~NoEmptyProxyValue(call[i].req0)
            /\ policy.config.SSLRedirect
            /\ ~EqualFold(call[i].req0.URL.Scheme, StrHttps)
            /\ ~call[i].req0.TLS

\* The header names in the order loadConfig is said to emit them.
HeaderOrder ==
    <<"X-Frame-Options", "X-Content-Type-Options", "X-Xss-Protection",
      "Content-Security-Policy", "Referrer-Policy", "Strict-Transport-Security",
      "X-Download-Options", "Feature-Policy">>

\* The position of a header name in HeaderOrder (0 for any other name).
OrderOf(name) ==
    IF \E k \in 1..Len(HeaderOrder) : HeaderOrder[k] = name
    THEN CHOOSE k \in 1..Len(HeaderOrder) : HeaderOrder[k] = name
    ELSE 0

\* The field of a header is enabled: a non-empty string, a flag that is set,
\* a number of seconds other than 0.
HeaderEnabled(c, name) ==
    CASE name = "X-Frame-Options" -> c.CustomFrameOptionsValue # Empty \/ c.FrameDeny
      [] name = "X-Content-Type-Options" -> c.ContentTypeNosniff
      [] name = "X-Xss-Protection" -> c.BrowserXssFilter
      [] name = "Content-Security-Policy" -> c.ContentSecurityPolicy # Empty
      [] name = "Referrer-Policy" -> c.ReferrerPolicy # Empty
      [] name = "Strict-Transport-Security" -> c.STSSeconds # 0
      [] name = "X-Download-Options" -> c.IENoOpen
      [] name = "Feature-Policy" -> c.FeaturePolicy # Empty
      [] OTHER -> FALSE

\* C13: the compiled list holds every header name at most once, each with a
\* single value; a name is in it if and only if its field is enabled; the
\* names come in the order X-Frame-Options, X-Content-Type-Options,
\* X-Xss-Protection, Content-Security-Policy, Referrer-Policy,
\* Strict-Transport-Security, X-Download-Options, Feature-Policy; the string
\* fields are emitted as they are; the zero Config compiles to the empty list.
C13_CompiledList ==
    stage = "ready" =>
        LET c == policy.config
            fh == policy.fixedHeaders
            verbatim(name, field) ==
                \A k \in HeadersNamed(fh, name) : fh[k].value = <<field>>
        IN  /\ \A k \in 1..Len(fh) :
                  /\ Len(fh[k].value) = 1
                  /\ OrderOf(fh[k].key) # 0
            /\ \A j, k \in 1..Len(fh) :
                  j < k => OrderOf(fh[j].key) < OrderOf(fh[k].key)
            /\ \A n \in 1..Len(HeaderOrder) :
                  HeaderEnabled(c, HeaderOrder[n])
                      <=> (HeadersNamed(fh, HeaderOrder[n]) # {})
            /\ c.CustomFrameOptionsValue # Empty =>
                  verbatim("X-Frame-Options", c.CustomFrameOptionsValue)
            /\ verbatim("Content-Security-Policy", c.ContentSecurityPolicy)
            /\ verbatim("Referrer-Policy", c.ReferrerPolicy)
            /\ verbatim("Feature-Policy", c.FeaturePolicy)
            /\ c = ZeroConfig => fh = << >>

\* A policy was built from a Config with all eight fields enabled, and holds
\* as many headers.
C13_Witness ==
    /\ stage = "ready"
    /\ \A n \in 1..Len(HeaderOrder) : HeaderEnabled(policy.config, HeaderOrder[n])
    /\ policy.config.STSSeconds # 0 /\ policy.config.IENoOpen
    /\ Len(policy.fixedHeaders) = Len(HeaderOrder)

====
